---- MODULE Spec2Model ----
(***************************************************************************)
(* sapcli "checkout": export of ABAP objects and packages to a local file  *)
(* tree (sap/cli/checkout.py).                                             *)
(*                                                                         *)
(* A string is a sequence of letters.  A letter is a one-character string  *)
(* ("/", ".", "A", "a", ...) or a chunk of lower-case characters holding   *)
(* neither "/" nor "." ("src", "clas", "abap", ...), on which str.lower()  *)
(* is the identity.                                                        *)
(***************************************************************************)
EXTENDS Naturals, Sequences, FiniteSets, TLC

SEP == "/"
DOT == "."

\* One step of str.lower(): the upper-case letters of the alphabet in use.
LowerCh(c) ==
    CASE c = "A" -> "a"
      [] c = "B" -> "b"
      [] c = "C" -> "c"
      [] c = "N" -> "n"
      [] c = "O" -> "o"
      [] c = "R" -> "r"
      [] c = "S" -> "s"
      [] OTHER -> c

\* str.lower()
Lower(s) == [i \in 1..Len(s) |-> LowerCh(s[i])]

StartsWithSep(s) == Len(s) > 0 /\ s[1] = SEP
EndsWithSep(s) == Len(s) > 0 /\ s[Len(s)] = SEP

\* posixpath.join(a, b)
Join2(a, b) ==
    IF StartsWithSep(b) THEN b
    ELSE IF a = <<>> \/ EndsWithSep(a) THEN a \o b
    ELSE a \o <<SEP>> \o b

\* posixpath.join(*segs), segs non-empty
RECURSIVE JoinFrom(_, _)
JoinFrom(acc, rest) ==
    IF rest = <<>> THEN acc ELSE JoinFrom(Join2(acc, Head(rest)), Tail(rest))

JoinAll(segs) == JoinFrom(Head(segs), Tail(segs))

\* str.split('/'): the components between separators, empty ones included
RECURSIVE SplitAcc(_, _, _)
SplitAcc(s, done, cur) ==
    IF s = <<>> THEN Append(done, cur)
    ELSE IF Head(s) = SEP THEN SplitAcc(Tail(s), Append(done, cur), <<>>)
    ELSE SplitAcc(Tail(s), done, Append(cur, Head(s)))

Split(s) == SplitAcc(s, <<>>, <<>>)

DotDot == <<DOT, DOT>>

\* the loop of posixpath.normpath over the components
RECURSIVE NormAcc(_, _, _)
NormAcc(comps, new, rooted) ==
    IF comps = <<>> THEN new
    ELSE LET comp == Head(comps) IN
         IF comp = <<>> \/ comp = <<DOT>> THEN NormAcc(Tail(comps), new, rooted)
         ELSE IF comp # DotDot
                 \/ (~rooted /\ new = <<>>)
                 \/ (new # <<>> /\ new[Len(new)] = DotDot)
              THEN NormAcc(Tail(comps), Append(new, comp), rooted)
         ELSE IF new # <<>>
              THEN NormAcc(Tail(comps), SubSeq(new, 1, Len(new) - 1), rooted)
         ELSE NormAcc(Tail(comps), new, rooted)

\* the normalised components of a path
NormComps(p) == NormAcc(Split(p), <<>>, StartsWithSep(p))

\* '/'.join(comps)
RECURSIVE SepJoin(_)
SepJoin(comps) ==
    IF comps = <<>> THEN <<>>
    ELSE IF Len(comps) = 1 THEN comps[1]
    ELSE comps[1] \o <<SEP>> \o SepJoin(Tail(comps))

\* the leading slashes posixpath.normpath keeps: two stay two, three or more
\* collapse to one
InitialSlashes(p) ==
    IF ~StartsWithSep(p) THEN <<>>
    ELSE IF Len(p) >= 2 /\ p[2] = SEP /\ ~(Len(p) >= 3 /\ p[3] = SEP)
         THEN <<SEP, SEP>>
    ELSE <<SEP>>

\* posixpath.normpath
NormPath(p) ==
    LET r == InitialSlashes(p) \o SepJoin(NormComps(p))
    IN IF r = <<>> THEN <<DOT>> ELSE r

\* the process's working directory
Cwd == <<SEP, "w">>

\* posixpath.abspath
AbsPath(p) == NormPath(IF StartsWithSep(p) THEN p ELSE Join2(Cwd, p))

\* The directory entry an absolute path names: its components after the
\* kernel has resolved ".", ".." and repeated separators (no symbolic links).
FsKey(p) == NormComps(AbsPath(p))

IsPrefix(a, b) == Len(a) <= Len(b) /\ SubSeq(b, 1, Len(a)) = a

(***************************************************************************)
(* The remote system and the command line                                  *)
(***************************************************************************)

\* the most failures the environment raises in one behaviour
MaxFaults == 1
\* the most times the command is run against the same file tree
MaxRuns == 2

Obj(t, n) == [typ |-> t, name |-> n]
Pkg(s, o) == [subs |-> s, objs |-> o]

\* A plain package tree: RO holds the sub-packages RA (which holds RC) and RB.
RemoteTree ==
    [root |-> <<"R", "O">>,
     pkgs |-> (<<"R", "O">> :> Pkg(<< <<"R", "A">>, <<"R", "B">> >>,
                                 << Obj("TABL/DT", <<"A", "b">>),
                                    Obj("CLAS/OC", <<"C", "a">>),
                                    Obj("PROG/P", <<"A", "b">>) >>))
           @@ (<<"R", "A">> :> Pkg(<< <<"R", "C">> >>,
                                   << Obj("INTF/OI", <<"N", "a">>) >>))
           @@ (<<"R", "C">> :> Pkg(<< >>, << Obj("PROG/P", <<"C", "C">>) >>))
           @@ (<<"R", "B">> :> Pkg(<< >>,
                                   << Obj("DEVC/K", <<"R", "B">>),
                                      Obj("PROG/P", <<"B", "b">>) >>))]

\* A namespaced package: its name and its objects' names begin with "/".
RemoteNamespaced ==
    [root |-> <<SEP, "N", SEP, "R">>,
     pkgs |-> (<<SEP, "N", SEP, "R">> :> Pkg(<< <<SEP, "N", SEP, "S">> >>,
                                           << Obj("INTF/OI", <<"O", "a">>),
                                              Obj("PROG/P", <<SEP, "N", SEP, "A">>) >>))
           @@ (<<SEP, "N", SEP, "S">> :> Pkg(<< >>,
                                             << Obj("FUGR/F", <<"S">>),
                                                Obj("PROG/P", <<"S", "a">>) >>))]

\* A package without sub-packages.
RemoteFlat ==
    [root |-> <<"B">>,
     pkgs |-> (<<"B">> :> Pkg(<< >>,
                              << Obj("CLAS/OC", <<"B", "c">>),
                                 Obj("PROG/P", <<"B", "c">>),
                                 Obj("VIEW/DV", <<"O">>) >>))]

Remotes == {RemoteTree, RemoteNamespaced, RemoteFlat}

\* the values of --starting-folder: the default, a relative path that climbs,
\* an absolute path
StartingFolders == {<<"src">>, <<DOT, DOT, SEP, "o">>, <<SEP, "t">>}

\* the values of the directory argument: the default None (as <<>>), a
\* directory to create, and the name of an existing file
Directories == {<<>>, <<"O", "ut">>, <<"f">>}

\* the directories the machine holds before the first run: the root, the
\* working directory and /t
InitialDirs == {<< >>, FsKey(Cwd), FsKey(<<SEP, "t">>)}

\* the file the working directory holds before the first run
ExistingFile == Join2(Cwd, <<"f">>)

\* the text bodies and attributes the remote system serves; a re-run reads
\* the same ones
RemoteText(name, part) == [kind |-> "text", name |-> name, data |-> <<part>>]

RemoteClass(name) ==
    [name |-> name,
     active |-> IF name[1] = "C" THEN "active" ELSE "inactive",
     master_language |-> "EN",
     description |-> "class",
     modeled |-> name[1] = "B",
     fix_point_arithmetic |-> name[1] = "C"]

\* the content of a file open(..., 'w') has just created or truncated
EmptyFile == [kind |-> "", name |-> <<>>, data |-> <<>>]

(***************************************************************************)
(* The file system                                                         *)
(***************************************************************************)

Prefixes(k) == {SubSeq(k, 1, i) : i \in 0..Len(k)}
Parent(k) == SubSeq(k, 1, Len(k) - 1)

\* os.path.isdir
IsDir(ds, p) == FsKey(p) \in ds

\* os.makedirs succeeds unless the path exists or a component of it is a file
MakedirsOk(ds, fs, p) ==
    /\ FsKey(p) \notin ds
    /\ \A q \in Prefixes(FsKey(p)) : q \notin DOMAIN fs

\* os.makedirs creates the missing components, leaf last, and stops at the
\* first one that is a file
Makedirs(ds, fs, p) ==
    ds \cup {q \in Prefixes(FsKey(p)) : \A r \in Prefixes(q) : r \notin DOMAIN fs}

\* open(p, 'w') succeeds when the parent is a directory and p is not one
OpenOk(ds, fs, p) ==
    LET k == FsKey(p)
    IN k # <<>> /\ k \notin ds /\ Parent(k) \in ds /\ Parent(k) \notin DOMAIN fs

\* open(p, 'w'), write, close
WriteFile(fs, p, content) ==
    [q \in DOMAIN fs \cup {FsKey(p)} |-> IF q = FsKey(p) THEN content ELSE fs[q]]

(***************************************************************************)
(* sap/cli/checkout.py: the pure parts                                     *)
(***************************************************************************)

\* build_filename without the call of lower()
build_filename_as_is(object_name, typsfx, fileext, destdir) ==
    Join2(destdir, object_name \o typsfx \o <<DOT, fileext>>)

\* build_filename, destdir given: f'{object_name}{typsfx}.{fileext}'.lower(),
\* joined to destdir
build_filename(object_name, typsfx, fileext, destdir) ==
    Join2(destdir, Lower(object_name \o typsfx \o <<DOT, fileext>>))

\* iso_code_to_sap_code, the external language-code lookup
iso_code_to_sap_code(iso) ==
    CASE iso = "EN" -> "E"
      [] iso = "DE" -> "D"
      [] OTHER -> "?"

\* build_class_abap_attributes: the VSEOCLASS fields VERSION, LANGU,
\* DESCRIPT, STATE, CLSCCINCL, FIXPT, UNICODE; CLSNAME is the record's name
build_class_abap_attributes(clas) ==
    [kind |-> "LCL_OBJECT_CLAS",
     name |-> clas.name,
     data |-> << IF clas.active = "active" THEN "1" ELSE "0",
                 iso_code_to_sap_code(clas.master_language),
                 clas.description,
                 IF clas.modeled THEN "0" ELSE "1",
                 "X",
                 IF clas.fix_point_arithmetic THEN "X" ELSE " ",
                 "X" >>]

\* the steps of the three exporters, in the order the code runs them:
\* fetch (clas.fetch()), source (download_abap_source), attrs
\* (build_class_abap_attributes and dump_attributes_to_file)
Step(op, typsfx, part) == [op |-> op, typsfx |-> typsfx, part |-> part]

checkout_class ==
    << Step("fetch", <<>>, ""),
       Step("source", <<DOT, "clas">>, "main"),
       Step("source", <<DOT, "clas", DOT, "locals_def">>, "definitions"),
       Step("source", <<DOT, "clas", DOT, "locals_imp">>, "implementations"),
       Step("source", <<DOT, "clas", DOT, "testclasses">>, "test_classes"),
       Step("attrs", <<DOT, "clas">>, "") >>

checkout_program == << Step("source", <<DOT, "prog">>, "main") >>

checkout_interface == << Step("source", <<DOT, "intf">>, "main") >>

\* the dispatch table of checkout_objects
checkouters ==
    ("PROG/P" :> "checkout_program")
    @@ ("CLAS/OC" :> "checkout_class")
    @@ ("INTF/OI" :> "checkout_interface")

Plan(exporter) ==
    CASE exporter = "checkout_class" -> checkout_class
      [] exporter = "checkout_program" -> checkout_program
      [] exporter = "checkout_interface" -> checkout_interface

\* an except clause that handles no exception
HandledNothing(kind) == FALSE

\* an except clause that handles every exception
HandledAll(kind) == TRUE

\* the except clause of checkout_objects: the exceptions raised inside the
\* try block that it handles, whether by the table lookup or by the exporter
Handled(kind) == kind = "KeyError"

\* the diagnostic line print(f'Unsupported object: {obj.typ} {obj.name}')
UnsupportedLine(obj) == <<"Unsupported object:", obj.typ, obj.name>>

\* make_repo_dir_for_package: the directory, defaulting to the package name
RepoDir(a) == AbsPath(IF a.directory = <<>> THEN a.name ELSE a.directory)

\* the metadata file without its leading dot
RepoFileNoDot(repo) == Join2(repo, <<"abapgit", DOT, "xml">>)

RepoFile(repo) == Join2(repo, <<DOT, "abapgit", DOT, "xml">>)

\* DOT_ABAP_GIT.for_new_repo(STARTING_FOLDER='/' + args.starting_folder + '/')
DotAbapGit(a) ==
    [kind |-> "DATA",
     name |-> <<SEP>> \o a.starting_folder \o <<SEP>>,
     data |-> << >>]

\* os.makedirs called without the os.path.isdir test
MustMakeDirsAlways(ds, d) == TRUE

\* "if not os.path.isdir(d): os.makedirs(d)", in make_repo_dir_for_package
\* and in checkout_objects
MustMakeDirs(ds, d) == ~IsDir(ds, d)

\* a loop that stops one object short
ObjectsLeftShort(i, objects) == i < Len(objects)

\* "for obj in objects": the loop of checkout_objects has an object left
ObjectsLeft(i, objects) == i <= Len(objects)

\* package: source_code_dir
SourceCodeDir(repo, a) == Join2(repo, a.starting_folder)

\* package: the destination directory of a visited package
DestDir(src_dir, package_name_hier) ==
    LET base == AbsPath(src_dir)
    IN IF Len(package_name_hier) = 1
       THEN Join2(base, Lower(package_name_hier[1]))
       ELSE IF Len(package_name_hier) > 1
       THEN Join2(base, Lower(JoinAll(package_name_hier)))
       ELSE base

\* the break taken when --recursive is given
BreakWhenRecursive(a) == a.recursive

\* package: leave the loop after the first visit unless --recursive
BreakAfterVisit(a) == ~a.recursive

(***************************************************************************)
(* sap.adt.package.walk: a lazy pre-order traversal.  The walker keeps the *)
(* paths still to browse; each step browses the first and puts its         *)
(* sub-packages ahead of the rest.                                         *)
(***************************************************************************)

WalkStart(name) == << <<name>> >>

WalkVisit(rem, path) ==
    [path |-> path,
     subs |-> rem.pkgs[path[Len(path)]].subs,
     objs |-> rem.pkgs[path[Len(path)]].objs]

WalkRest(rem, pending) ==
    LET path == Head(pending)
        subs == rem.pkgs[path[Len(path)]].subs
    IN [i \in 1..Len(subs) |-> Append(path, subs[i])] \o Tail(pending)

(***************************************************************************)
(* The state of one behaviour: the command line and the remote system,     *)
(* the position and the local variables of package() and of the functions  *)
(* it calls, the file system, the error stream, and the events so far.     *)
(***************************************************************************)
VARIABLES
    args,             \* the parsed command line of "checkout package"
    remote,           \* the remote system's packages and objects
    run,              \* 1 for the first run of the command, 2 for a re-run
    faults,           \* failures the environment has raised so far
    pc,               \* the position in package()
    repo_dir,         \* package: repo_dir
    source_code_dir,  \* package: the source tree directory
    pending,          \* the walker: the package paths still to browse
    visit,            \* package: (package_name_hier, _, objects)
    destdir,          \* package: destdir
    idx,              \* checkout_objects: the position in objects
    step,             \* the exporter: the position in its steps
    dirs,             \* the file system's directories
    files,            \* the file system's files and their contents
    stderr,           \* the lines printed to sys.stderr
    error,            \* the exception that ended the run, "" if none
    trace,            \* the events of this run, in order
    first             \* the file system as the first run left it

vars == <<args, remote, run, faults, pc, repo_dir, source_code_dir, pending,
          visit, destdir, idx, step, dirs, files, stderr, error, trace, first>>

\* An event: a directory made (mkdir), the repository initialised (init), a
\* package browsed (browse) and its destination fixed (dest), an exporter
\* called (call) and returned (ret), a file opened (open) and written
\* (write, with what was written), an exception raised inside the try block
\* of checkout_objects (fail), the diagnostic printed for it (diag), an
\* exception leaving package() (raise).
Ev(e, t, f, n, d, p) ==
    [ev |-> e, typ |-> t, fn |-> f, name |-> n, dir |-> d, path |-> p,
     data |-> EmptyFile]

Wrote(f, n, file, content) ==
    [Ev("write", "", f, n, file, << >>) EXCEPT !.data = content]

NoVisit == [path |-> << >>, subs |-> << >>, objs |-> << >>]
NoFiles == [q \in {} |-> EmptyFile]

\* the outcomes of a call into the environment: it returns, or raises one of
\* kinds
Outcomes(kinds) == {"ok"} \cup (IF faults < MaxFaults THEN kinds ELSE {})

Init ==
    /\ remote \in Remotes
    /\ args \in [name : {remote.root},
                 directory : Directories,
                 starting_folder : StartingFolders,
                 recursive : BOOLEAN]
    /\ run = 1
    /\ faults = 0
    /\ pc = "init"
    /\ repo_dir = << >>
    /\ source_code_dir = << >>
    /\ pending = << >>
    /\ visit = NoVisit
    /\ destdir = << >>
    /\ idx = 0
    /\ step = 0
    /\ dirs = InitialDirs
    /\ files = WriteFile(NoFiles, ExistingFile, EmptyFile)
    /\ stderr = << >>
    /\ error = ""
    /\ trace = << >>
    /\ first = [dirs |-> {}, files |-> NoFiles]

\* an exception leaves package(): the run ends
Abort(kind, tr) ==
    /\ pc' = "aborted"
    /\ error' = kind
    /\ trace' = Append(tr, Ev("raise", kind, "", << >>, << >>, << >>))

\* package, lines 172-175: make_repo_dir_for_package (the whole of it), then
\* source_code_dir and the walker over the named package
MakeRepoDirForPackage ==
    /\ pc = "init"
    /\ \E out \in Outcomes({"makedirs", "open"}) :
        LET repo == RepoDir(args)
            need == MustMakeDirs(dirs, repo)
            made == IF need /\ out # "makedirs"
                    THEN Makedirs(dirs, files, repo) ELSE dirs
            file == RepoFile(repo)
            tr == IF need
                  THEN Append(trace, Ev("mkdir", "", "", << >>, repo, << >>))
                  ELSE trace
        IN /\ out = "makedirs" => need
           /\ faults' = IF out = "ok" THEN faults ELSE faults + 1
           /\ dirs' = made
           /\ IF out = "makedirs" \/ (need /\ ~MakedirsOk(dirs, files, repo))
              THEN /\ Abort("OSError", trace)
                   /\ UNCHANGED <<files, repo_dir, source_code_dir, pending>>
              ELSE IF out = "open" \/ ~OpenOk(made, files, file)
              THEN /\ Abort("OSError", tr)
                   /\ UNCHANGED <<files, repo_dir, source_code_dir, pending>>
              ELSE /\ files' = WriteFile(files, file, DotAbapGit(args))
                   /\ repo_dir' = repo
                   /\ source_code_dir' = SourceCodeDir(repo, args)
                   /\ pending' = WalkStart(args.name)
                   /\ pc' = "walk"
                   /\ error' = error
                   /\ trace' = tr \o << Wrote("", << >>, file, DotAbapGit(args)),
                                        Ev("init", "", "", << >>, repo, << >>) >>
    /\ UNCHANGED <<args, remote, run, visit, destdir, idx, step, stderr, first>>

\* package, lines 177-184: the for loop asks the walker for its next visit,
\* the walker browses the package, and destdir is computed for it
WalkNext ==
    /\ pc = "walk"
    /\ pending # << >>
    /\ \E out \in Outcomes({"HTTPRequestError"}) :
        /\ faults' = IF out = "ok" THEN faults ELSE faults + 1
        /\ IF out # "ok"
           THEN /\ Abort(out, trace)
                /\ UNCHANGED <<visit, pending, destdir>>
           ELSE LET v == WalkVisit(remote, Head(pending))
                    d == DestDir(source_code_dir, v.path)
                IN /\ visit' = v
                   /\ pending' = WalkRest(remote, pending)
                   /\ destdir' = d
                   /\ pc' = "mkdest"
                   /\ error' = error
                   /\ trace' = trace \o
                        << Ev("browse", "", "", << >>, << >>, v.path),
                           Ev("dest", "", "", << >>, d, v.path) >>
    /\ UNCHANGED <<args, remote, run, repo_dir, source_code_dir, idx, step,
                   dirs, files, stderr, first>>

\* package, line 177: the walker has no visit left and the loop ends
WalkEnd ==
    /\ pc = "walk"
    /\ pending = << >>
    /\ pc' = "done"
    /\ UNCHANGED <<args, remote, run, faults, repo_dir, source_code_dir,
                   pending, visit, destdir, idx, step, dirs, files, stderr,
                   error, trace, first>>

\* checkout_objects, lines 125-132: the destination directory is made
\* unless it is one already
EnsureDestDir ==
    /\ pc = "mkdest"
    /\ \E out \in Outcomes({"makedirs"}) :
        LET need == MustMakeDirs(dirs, destdir)
            made == IF need /\ out = "ok"
                    THEN Makedirs(dirs, files, destdir) ELSE dirs
        IN /\ out = "makedirs" => need
           /\ faults' = IF out = "ok" THEN faults ELSE faults + 1
           /\ dirs' = made
           /\ IF out = "makedirs" \/ (need /\ ~MakedirsOk(dirs, files, destdir))
              THEN /\ Abort("OSError", trace)
                   /\ idx' = idx
              ELSE /\ idx' = 1
                   /\ pc' = "loop"
                   /\ error' = error
                   /\ trace' = IF need
                               THEN Append(trace, Ev("mkdir", "", "", << >>,
                                                     destdir, << >>))
                               ELSE trace
    /\ UNCHANGED <<args, remote, run, repo_dir, source_code_dir, pending,
                   visit, destdir, step, files, stderr, first>>

CurObj == visit.objs[idx]
CurPlan == Plan(checkouters[CurObj.typ])
CurStep == CurPlan[step]

\* checkout_objects, lines 135-138: an exception is raised inside the try
\* block, by the table lookup (fn = "") or by the exporter fn.  A handled
\* one prints the diagnostic and the loop goes on; any other leaves
\* checkout_objects and package.
Raise(kind, fn, tr) ==
    LET failed == Append(tr, Ev("fail", kind, fn, CurObj.name, << >>, << >>))
    IN IF Handled(kind)
       THEN /\ stderr' = Append(stderr, UnsupportedLine(CurObj))
            /\ idx' = idx + 1
            /\ pc' = "loop"
            /\ error' = error
            /\ trace' = Append(failed, Ev("diag", CurObj.typ, fn, CurObj.name,
                                          << >>, << >>))
       ELSE /\ Abort(kind, failed)
            /\ UNCHANGED <<stderr, idx>>

\* an exporter step has run: the exporter goes on, or returns to the loop
Advance(tr) ==
    /\ stderr' = stderr
    /\ error' = error
    /\ IF step < Len(CurPlan)
       THEN /\ step' = step + 1
            /\ UNCHANGED <<pc, idx>>
            /\ trace' = tr
       ELSE /\ step' = 0
            /\ pc' = "loop"
            /\ idx' = idx + 1
            /\ trace' = Append(tr, Ev("ret", CurObj.typ,
                                      checkouters[CurObj.typ], CurObj.name,
                                      destdir, << >>))

\* checkout_objects, line 134: no object is left
LoopEnd ==
    /\ pc = "loop"
    /\ ~ObjectsLeft(idx, visit.objs)
    /\ pc' = "brk"
    /\ UNCHANGED <<args, remote, run, faults, repo_dir, source_code_dir,
                   pending, visit, destdir, idx, step, dirs, files, stderr,
                   error, trace, first>>

\* checkout_objects, line 136: checkouters[obj.typ] raises KeyError
LookupMiss ==
    /\ pc = "loop"
    /\ ObjectsLeft(idx, visit.objs)
    /\ CurObj.typ \notin DOMAIN checkouters
    /\ Raise("KeyError", "", trace)
    /\ UNCHANGED <<args, remote, run, faults, repo_dir, source_code_dir,
                   pending, visit, destdir, step, dirs, files, first>>

\* checkout_objects, line 136: the exporter is called
CallExporter ==
    /\ pc = "loop"
    /\ ObjectsLeft(idx, visit.objs)
    /\ CurObj.typ \in DOMAIN checkouters
    /\ pc' = "export"
    /\ step' = 1
    /\ trace' = Append(trace, Ev("call", CurObj.typ, checkouters[CurObj.typ],
                                 CurObj.name, destdir, << >>))
    /\ UNCHANGED <<args, remote, run, faults, repo_dir, source_code_dir,
                   pending, visit, destdir, idx, dirs, files, stderr, error,
                   first>>

\* checkout_class, lines 73-74: sap.adt.Class(connection, name).fetch()
ClassFetch ==
    /\ pc = "export"
    /\ CurStep.op = "fetch"
    /\ \E out \in Outcomes({"HTTPRequestError", "KeyError"}) :
        /\ faults' = IF out = "ok" THEN faults ELSE faults + 1
        /\ IF out = "ok"
           THEN Advance(trace)
           ELSE Raise(out, checkouters[CurObj.typ], trace) /\ step' = step
    /\ UNCHANGED <<args, remote, run, repo_dir, source_code_dir, pending,
                   visit, destdir, dirs, files, first>>

\* download_abap_source: the file is opened for writing, which creates or
\* truncates it, then source_object.text is read from the remote system and
\* written
DownloadAbapSource ==
    /\ pc = "export"
    /\ CurStep.op = "source"
    /\ \E out \in Outcomes({"OSError", "HTTPRequestError", "KeyError"}) :
        LET filename == build_filename(CurObj.name, CurStep.typsfx, "abap",
                                       destdir)
            fn == checkouters[CurObj.typ]
            opened == Append(trace, Ev("open", "", fn, CurObj.name, filename,
                                       << >>))
        IN /\ faults' = IF out = "ok" THEN faults ELSE faults + 1
           /\ IF out = "OSError" \/ ~OpenOk(dirs, files, filename)
              THEN /\ files' = files
                   /\ Raise("OSError", fn, trace)
                   /\ step' = step
              ELSE IF out # "ok"
              THEN /\ files' = WriteFile(files, filename, EmptyFile)
                   /\ Raise(out, fn, opened)
                   /\ step' = step
              ELSE /\ files' = WriteFile(files, filename,
                                         RemoteText(CurObj.name, CurStep.part))
                   /\ Advance(Append(opened,
                          Wrote(fn, CurObj.name, filename,
                                RemoteText(CurObj.name, CurStep.part))))
    /\ UNCHANGED <<args, remote, run, repo_dir, source_code_dir, pending,
                   visit, destdir, dirs, first>>

\* checkout_class, lines 81-82: build_class_abap_attributes, whose lookups
\* may raise, then dump_attributes_to_file
DumpAttributesToFile ==
    /\ pc = "export"
    /\ CurStep.op = "attrs"
    /\ \E out \in Outcomes({"OSError", "KeyError"}) :
        LET filename == build_filename(CurObj.name, CurStep.typsfx, "xml",
                                       destdir)
            fn == checkouters[CurObj.typ]
            opened == Append(trace, Ev("open", "", fn, CurObj.name, filename,
                                       << >>))
        IN /\ faults' = IF out = "ok" THEN faults ELSE faults + 1
           /\ IF out = "KeyError"
              THEN /\ files' = files
                   /\ Raise(out, fn, trace)
                   /\ step' = step
              ELSE IF out = "OSError" \/ ~OpenOk(dirs, files, filename)
              THEN /\ files' = files
                   /\ Raise("OSError", fn, trace)
                   /\ step' = step
              ELSE /\ files' = WriteFile(files, filename,
                            build_class_abap_attributes(RemoteClass(CurObj.name)))
                   /\ Advance(Append(opened,
                          Wrote(fn, CurObj.name, filename,
                                build_class_abap_attributes(RemoteClass(CurObj.name)))))
    /\ UNCHANGED <<args, remote, run, repo_dir, source_code_dir, pending,
                   visit, destdir, dirs, first>>

\* package, lines 188-189: checkout_objects has returned
LoopBreak ==
    /\ pc = "brk"
    /\ pc' = IF BreakAfterVisit(args) THEN "done" ELSE "walk"
    /\ UNCHANGED <<args, remote, run, faults, repo_dir, source_code_dir,
                   pending, visit, destdir, idx, step, dirs, files, stderr,
                   error, trace, first>>

\* the same command is run again, against the same remote system and the
\* file tree the runs before it left, after they all ended without an error
Rerun ==
    /\ pc = "done"
    /\ faults = 0
    /\ run < MaxRuns
    /\ run' = run + 1
    /\ first' = IF run = 1 THEN [dirs |-> dirs, files |-> files] ELSE first
    /\ pc' = "init"
    /\ repo_dir' = << >>
    /\ source_code_dir' = << >>
    /\ pending' = << >>
    /\ visit' = NoVisit
    /\ destdir' = << >>
    /\ idx' = 0
    /\ step' = 0
    /\ stderr' = << >>
    /\ trace' = << >>
    /\ UNCHANGED <<args, remote, faults, dirs, files, error>>

Next ==
    \/ MakeRepoDirForPackage
    \/ WalkNext
    \/ WalkEnd
    \/ EnsureDestDir
    \/ LoopEnd
    \/ LookupMiss
    \/ CallExporter
    \/ ClassFetch
    \/ DownloadAbapSource
    \/ DumpAttributesToFile
    \/ LoopBreak
    \/ Rerun

Spec == Init /\ [][Next]_vars

(***************************************************************************)
(* Reading the events of a run                                             *)
(***************************************************************************)

Last(q) == q[Len(q)]
Least(S) == CHOOSE m \in S : \A n \in S : m <= n
Positions(e) == {i \in 1..Len(trace) : trace[i].ev = e}

\* the type tags the specification gives an exporter, and the exporter of each
KnownTags == {"PROG/P", "CLAS/OC", "INTF/OI"}
ExporterOf(tag) ==
    CASE tag = "PROG/P" -> "checkout_program"
      [] tag = "CLAS/OC" -> "checkout_class"
      [] tag = "INTF/OI" -> "checkout_interface"

\* A visit's events run from the event that fixes its destination directory
\* to the one before the walker's next browse.
VisitEnd(s) ==
    LET later == {j \in (s + 1)..Len(trace) : trace[j].ev = "browse"}
    IN IF later = {} THEN Len(trace) ELSE Least(later) - 1
VisitEvents(s) == SubSeq(trace, s, VisitEnd(s))
VisitObjs(s) == remote.pkgs[Last(trace[s].path)].objs

\* checkout_objects has returned for the visit that starts at s
VisitReturned(s) == VisitEnd(s) < Len(trace) \/ pc \in {"brk", "walk", "done"}

IsExporterFailure(e) == e.ev = "raise" \/ (e.ev = "diag" /\ e.fn # "")
IsDispatch(e) == e.ev = "call" \/ (e.ev = "diag" /\ e.fn = "")
IsDiag(e) == e.ev = "diag"
IsRet(e) == e.ev = "ret"

\* no exporter failed during the visit that starts at s
VisitClean(s) ==
    \A j \in s..VisitEnd(s) : ~IsExporterFailure(trace[j])

\* C1: in a call of checkout_objects where no exporter fails, the i-th
\* dispatch is for the i-th object of the list: a call of the exporter of its
\* tag with its name and the destination directory when the tag is PROG/P,
\* CLAS/OC or INTF/OI, and otherwise one line "Unsupported object: <tag>
\* <name>" and no call; every call returns; the lines on the error stream are
\* those diagnostics, in order; and a lookup miss never ends the run.
C1_Dispatch ==
    /\ \A s \in Positions("dest") :
        (VisitReturned(s) /\ VisitClean(s)) =>
            LET D == SelectSeq(VisitEvents(s), IsDispatch)
                R == SelectSeq(VisitEvents(s), IsRet)
                K == SelectSeq(VisitObjs(s), LAMBDA o : o.typ \in KnownTags)
                objs == VisitObjs(s)
            IN /\ Len(D) = Len(objs)
               /\ \A i \in 1..Len(objs) :
                    /\ D[i].typ = objs[i].typ
                    /\ D[i].name = objs[i].name
                    /\ IF objs[i].typ \in KnownTags
                       THEN /\ D[i].ev = "call"
                            /\ D[i].fn = ExporterOf(objs[i].typ)
                            /\ D[i].dir = trace[s].dir
                       ELSE D[i].ev = "diag"
               /\ Len(R) = Len(K)
               /\ \A i \in 1..Len(K) : R[i].name = K[i].name /\ R[i].typ = K[i].typ
    /\ LET G == SelectSeq(trace, IsDiag)
       IN /\ Len(stderr) = Len(G)
          /\ \A k \in 1..Len(G) :
                stderr[k] = <<"Unsupported object:", G[k].typ, G[k].name>>
    /\ \A j \in Positions("raise") : trace[j].typ # "KeyError"

\* C1's case: an unsupported object was skipped and the object after it in
\* the same list was exported, without any failure.
C1_Witness ==
    /\ faults = 0
    /\ pc = "brk"
    /\ \E i, j \in 1..Len(trace) :
        /\ i < j
        /\ trace[i].ev = "diag"
        /\ trace[j].ev = "ret"
        /\ \A k \in i..j : trace[k].ev # "browse"

\* C2: a line "Unsupported object" is printed only for an object whose tag is
\* absent from the dispatch table; a failure of an invoked exporter always
\* leaves checkout_objects and is never turned into that line.
C2_OnlyLookupMiss ==
    \A i \in Positions("diag") : trace[i].typ \notin KnownTags

RECURSIVE PreOrder(_, _), PreOrderOf(_, _, _)
\* the packages reachable from path, each before its sub-packages and the
\* sub-packages in the order the package lists them
PreOrder(rem, path) ==
    <<path>> \o PreOrderOf(rem, path, rem.pkgs[Last(path)].subs)
PreOrderOf(rem, path, subs) ==
    IF subs = << >> THEN << >>
    ELSE PreOrder(rem, Append(path, Head(subs)))
         \o PreOrderOf(rem, path, Tail(subs))

IsBrowse(e) == e.ev = "browse"
Browsed == SelectSeq(trace, IsBrowse)

\* the objects dispatched in the visit that starts at s are the objects of
\* the package, each once and in the order of the list
VisitDispatched(s) ==
    LET D == SelectSeq(VisitEvents(s), IsDispatch)
        objs == VisitObjs(s)
    IN /\ Len(D) = Len(objs)
       /\ \A i \in 1..Len(objs) :
            D[i].typ = objs[i].typ /\ D[i].name = objs[i].name

\* C3: a package checkout that ends without an error has, without
\* --recursive, browsed the root package alone, left the walker where its
\* first visit left it, and dispatched the root's objects; with --recursive
\* it has browsed the root and every package reachable from it exactly once,
\* in pre-order, and dispatched the objects of each.
C3_Recursion ==
    pc = "done" =>
        /\ IF args.recursive
           THEN /\ [i \in 1..Len(Browsed) |-> Browsed[i].path]
                     = PreOrder(remote, <<remote.root>>)
                /\ pending = << >>
           ELSE /\ Len(Browsed) = 1
                /\ Browsed[1].path = <<remote.root>>
                /\ pending = [i \in 1..Len(remote.pkgs[remote.root].subs) |->
                                <<remote.root, remote.pkgs[remote.root].subs[i]>>]
        /\ \A s \in Positions("dest") : VisitDispatched(s)
        /\ Cardinality(Positions("dest")) = Len(Browsed)

\* C3's case: a recursive checkout of a tree three levels deep has ended.
C3_Witness ==
    /\ pc = "done"
    /\ args.recursive
    /\ Len(Browsed) = 4
    /\ Len(Browsed[3].path) = 3

FatalKinds == {"HTTPRequestError", "OSError"}

\* what the write events before position j say each file holds
LastWrite(k, j) ==
    LET ws == {w \in 1..(j - 1) : trace[w].ev = "write" /\ FsKey(trace[w].dir) = k}
    IN trace[CHOOSE w \in ws : \A v \in ws : v <= w].data

MetadataKey(root) == Append(FsKey(root), <<DOT, "abapgit", DOT, "xml">>)

\* C5: initialisation happens at most once in a run and before anything is
\* browsed, dispatched or exported; once it has happened the root is a
\* directory holding .abapgit.xml with the starting folder between
\* separators; and a run that ends without it has browsed nothing, made no
\* directory but the root's and called no exporter.
C5_InitFirst ==
    /\ Cardinality(Positions("init")) <= 1
    /\ \A j \in 1..Len(trace) :
        trace[j].ev \in {"browse", "dest", "call", "open", "ret", "fail", "diag"}
            => \E i \in Positions("init") : i < j
    /\ \A j \in Positions("mkdir") :
        (\A i \in Positions("init") : j < i) => trace[j].dir = RepoDir(args)
    /\ \A i \in Positions("init") :
        /\ trace[i].dir = RepoDir(args)
        /\ FsKey(RepoDir(args)) \in dirs
        /\ MetadataKey(RepoDir(args)) \in DOMAIN files
        /\ files[MetadataKey(RepoDir(args))].kind = "DATA"
        /\ files[MetadataKey(RepoDir(args))].name
             = <<SEP>> \o args.starting_folder \o <<SEP>>
    /\ (pc \in {"walk", "mkdest", "loop", "export", "brk", "done"})
            => Positions("init") # {}
    /\ (pc = "aborted" /\ Positions("init") = {}) =>
            /\ \A j \in 1..Len(trace) : trace[j].ev \in {"mkdir", "raise"}
            /\ stderr = << >>
            /\ pending = << >>

\* C5's case: the run is exporting, after its one initialisation.
C5_Witness ==
    /\ pc = "export"
    /\ Cardinality(Positions("init")) = 1
    /\ Cardinality(Positions("browse")) >= 2

\* C6: a re-run after a successful run, with the remote system unchanged and
\* no failure of the environment, never ends in an error and never changes
\* the file tree: the directories and the files and their contents stay
\* those the first run left.
C6_Rerun ==
    (run >= 2 /\ faults = 0) =>
        /\ pc # "aborted"
        /\ dirs = first.dirs
        /\ files = first.files

\* C6's case: the re-run has ended, over the class and program files of the
\* first run.
C6_Witness ==
    /\ run >= 2
    /\ faults = 0
    /\ pc = "done"
    /\ Cardinality(Positions("write")) >= 7
    /\ Cardinality(DOMAIN first.files) >= 7

\* base/<segment>/<segment>..., each segment one level below the one before
RECURSIVE Under(_, _)
Under(base, segs) ==
    IF segs = << >> THEN base
    ELSE Under(base \o <<SEP>> \o Head(segs), Tail(segs))

\* C7: the destination directory of every visited package is
\* <root>/<starting_folder> followed by the package's path segments in lower
\* case, one directory level each in the order of the path.
C7_DestDir ==
    \A s \in Positions("dest") :
        FsKey(trace[s].dir)
          = FsKey(Under(Under(repo_dir, <<args.starting_folder>>),
                        [i \in 1..Len(trace[s].path) |-> Lower(trace[s].path[i])]))

\* the files an exporter writes for an object, after the lower-cased name
FilesOf(tag) ==
    CASE tag = "CLAS/OC" ->
            << <<DOT, "clas", DOT, "abap">>,
               <<DOT, "clas", DOT, "locals_def", DOT, "abap">>,
               <<DOT, "clas", DOT, "locals_imp", DOT, "abap">>,
               <<DOT, "clas", DOT, "testclasses", DOT, "abap">>,
               <<DOT, "clas", DOT, "xml">> >>
      [] tag = "PROG/P" -> << <<DOT, "prog", DOT, "abap">> >>
      [] tag = "INTF/OI" -> << <<DOT, "intf", DOT, "abap">> >>

\* the file named f in directory d, d taken as it is; a name that begins
\* with the separator is a path of its own
FileIn(d, f) == IF f[1] = SEP THEN f ELSE d \o <<SEP>> \o f

\* the position of the call that the return at j answers
CallOf(j) ==
    LET cs == {c \in 1..(j - 1) : trace[c].ev = "call"}
    IN CHOOSE c \in cs : \A b \in cs : b <= c

IsWrite(e) == e.ev = "write"

HasUpper(str) == \E k \in 1..Len(str) : LowerCh(str[k]) # str[k]

IsDone(e) == e.ev = "ret" \/ e.ev = "diag"

Count(j, Test(_)) == Cardinality({i \in 1..j : Test(trace[i])})
IsCall(e) == e.ev = "call"
IsExporterEnd(e) ==
    e.ev = "ret" \/ (e.ev = "fail" /\ e.fn # "")

\* C9: at every point of a run at most one exporter call has not ended; the
\* objects of a visited package are dispatched in the order of its list;
\* and when the walker browses the next package every object of the package
\* before it has been exported or skipped.
C9_Sequential ==
    /\ \A j \in 0..Len(trace) :
        Count(j, IsCall) - Count(j, IsExporterEnd) \in {0, 1}
    /\ \A s \in Positions("dest") :
        LET D == SelectSeq(VisitEvents(s), IsDispatch)
            objs == VisitObjs(s)
        IN /\ Len(D) <= Len(objs)
           /\ \A i \in 1..Len(D) :
                D[i].typ = objs[i].typ /\ D[i].name = objs[i].name
    /\ \A s \in Positions("dest") :
        VisitEnd(s) < Len(trace) =>
            Len(SelectSeq(VisitEvents(s), IsDone)) = Len(VisitObjs(s))

\* C9's case: the walker browsed a second package after a first one with
\* several objects.
C9_Witness ==
    \E s \in Positions("dest") :
        /\ VisitEnd(s) < Len(trace)
        /\ Len(VisitObjs(s)) >= 3

\* C10: every directory a run makes and every file it writes lies inside the
\* root directory (the directories above the root, made to reach it, apart),
\* and every destination directory lies under the folder the metadata file
\* records as STARTING_FOLDER.
C10_Contained ==
    LET root == FsKey(RepoDir(args))
    IN /\ \A d \in dirs \ InitialDirs : IsPrefix(root, d) \/ IsPrefix(d, root)
       /\ \A f \in DOMAIN files \ {FsKey(ExistingFile)} : IsPrefix(root, f)
       /\ \A s \in Positions("dest") :
            IsPrefix(FsKey(Under(RepoDir(args), <<args.starting_folder>>)),
                     FsKey(trace[s].dir))
====
